---------------------------- MODULE Spec2Model ----------------------------
(***************************************************************************)
(* A model of WebCore's ColorMatrix.h (the fixed-size colour matrix, its   *)
(* filter factories and applyMatricesToColorComponents) and of             *)
(* WHLSLScopedSetAdder.h (the scoped set adder).                           *)
(*                                                                         *)
(* Numbers.  The C++ code computes in float.  The matrix core is modelled  *)
(* over small integers, on which float addition and multiplication are     *)
(* exact.  The filter factories are modelled in exact fixed point: a       *)
(* literal such as 0.2126f is the integer 2126, a count of                 *)
(* 1/CoefficientUnit; a scalar (amount, oneMinusAmount, cosHue, sinHue) is *)
(* an integer count of 1/ScalarUnit; a coefficient                         *)
(* literal + literal * scalar is an integer count of                       *)
(* 1/(CoefficientUnit * ScalarUnit).  Float rounding (relative 2^-24) is   *)
(* not represented.                                                        *)
(***************************************************************************)
EXTENDS Integers, Sequences, FiniteSets

VARIABLES
    pc,            \* the operation that has acted ("init" before any)
    size,          \* ColorComponents<float>::Size of the build
    inputVector,   \* the ColorComponents<float> argument
    matrix,        \* the ColorMatrix the operation is applied to / returns
    matrices,      \* the parameter pack of applyMatricesToColorComponents
    other,         \* the right operand of operator== / operator!=
    amount,        \* the float argument of a filter factory (amount or angle)
    result,        \* the value the operation returned
    set,           \* the HashSet<T> the adders refer to
    initialSet,    \* its contents before the first adder
    adders,        \* the live ScopedSetAdders, oldest first
    last           \* the last adder operation and the set before it

vars == <<pc, size, inputVector, matrix, matrices, other, amount, result,
          set, initialSet, adders, last>>

None == "none"

(***************************************************************************)
(* Bounds of the model.                                                    *)
(***************************************************************************)
MaxSize == 2
MaxColumns == 3
MaxRows == 2
MaxCells == 4
MaxCoefficient == 1
MaxInput == 1

Coefficients == -1 .. MaxCoefficient
InputValues == -1 .. MaxInput

(***************************************************************************)
(* ColorMatrix<ColumnCount, RowCount>: m_matrix holds RowCount *           *)
(* ColumnCount coefficients, row-major.  Rows, columns and vector indices  *)
(* count from 0 as in the code; a TLA+ sequence counts from 1.             *)
(***************************************************************************)
ColorMatrix(columnCount, rowCount, input) ==
    [ColumnCount |-> columnCount, RowCount |-> rowCount, m_matrix |-> input]

at(m, row, column) == m.m_matrix[(row * m.ColumnCount) + column + 1]

\* All matrices of one shape over the coefficient set K.
MatricesOfShape(columnCount, rowCount, K) ==
    { ColorMatrix(columnCount, rowCount, input) :
        input \in [1 .. rowCount * columnCount -> K] }

\* ColorComponents<float>: indices 0 .. Size-1.
ComponentsOfSize(n, V) == [0 .. n - 1 -> V]

\* A default-constructed ColorComponents<float>: every component 0.
DefaultColorComponents(n) == [i \in 0 .. n - 1 |-> 0]

(***************************************************************************)
(* ColorMatrix::transformedColorComponents                                 *)
(***************************************************************************)
\* for (column = from; column < to; ++column) acc += at(row, column) * inputVector[column];
RECURSIVE MultiplyColumns(_, _, _, _, _, _)
MultiplyColumns(m, row, from, to, in, acc) ==
    IF from < to
    THEN MultiplyColumns(m, row, from + 1, to, in, acc + at(m, row, from) * in[from])
    ELSE acc

\* for (additionalColumn = from; additionalColumn < ColumnCount; ++additionalColumn)
\*     acc += at(row, additionalColumn);
RECURSIVE AddColumns(_, _, _, _)
AddColumns(m, row, from, acc) ==
    IF from < m.ColumnCount
    THEN AddColumns(m, row, from + 1, acc + at(m, row, from))
    ELSE acc

\* Mutant: the loop multiplies by inputVector[row] instead of inputVector[column].
InputColumnsRowIndexed(m, row, n, in, acc) ==
    MultiplyColumns(m, row, 0, n, [c \in DOMAIN in |-> in[row]], acc)

\* The loop over the first n columns of one row.
InputColumns(m, row, n, in, acc) == MultiplyColumns(m, row, 0, n, in, acc)

\* Mutant: the columns beyond the vector are ignored (zero padding).
AdditionalColumnsIgnored(m, row, n, acc) == acc

\* The loop over the columns beyond the vector's size n.
AdditionalColumns(m, row, n, acc) == AddColumns(m, row, n, acc)

\* The body of the row loop: result[row] after it, from result[row] = acc.
TransformedRow(m, row, in, n, acc) ==
    IF m.ColumnCount <= n
    THEN InputColumns(m, row, m.ColumnCount, in, acc)
    ELSE AdditionalColumns(m, row, n, InputColumns(m, row, n, in, acc))

\* Mutant: the rows beyond the matrix are left as default-constructed.
AdditionalRowsDropped(m, in, n, res) == res

\* if constexpr (Size > RowCount): result[additionalRow] = inputVector[additionalRow].
AdditionalRows(m, in, n, res) ==
    IF n > m.RowCount
    THEN [i \in 0 .. n - 1 |-> IF i >= m.RowCount THEN in[i] ELSE res[i]]
    ELSE res

transformedColorComponents(m, in, n) ==
    LET initial == DefaultColorComponents(n)
        rows == [i \in 0 .. n - 1 |->
                    IF i < m.RowCount
                    THEN TransformedRow(m, i, in, n, initial[i])
                    ELSE initial[i]]
    IN  AdditionalRows(m, in, n, rows)

\* The shapes a build of vector size n accepts: static_assert(Size >= RowCount).
Shapes(n) ==
    { s \in (1 .. MaxColumns) \X (1 .. MaxRows) :
        s[2] <= n /\ s[1] * s[2] <= MaxCells }

MatricesFor(n) ==
    UNION { MatricesOfShape(s[1], s[2], Coefficients) : s \in Shapes(n) }

(***************************************************************************)
(* Specification SpecTransform: one call of transformedColorComponents.    *)
(***************************************************************************)
NoAdder ==
    /\ set = {} /\ initialSet = {} /\ adders = << >> /\ last = None

InitTransform ==
    /\ pc = "init"
    /\ size \in 1 .. MaxSize
    /\ inputVector \in ComponentsOfSize(size, InputValues)
    /\ matrix = None /\ matrices = << >> /\ other = None /\ amount = 0
    /\ result = None
    /\ NoAdder

Transform ==
    /\ pc = "init"
    /\ \E m \in MatricesFor(size) :
        /\ matrix' = m
        /\ result' = transformedColorComponents(m, inputVector, size)
    /\ pc' = "transformed"
    /\ UNCHANGED <<size, inputVector, matrices, other, amount,
                   set, initialSet, adders, last>>

NextTransform == Transform

SpecTransform == InitTransform /\ [][NextTransform]_vars

\* The sum of f over the index set S.
RECURSIVE Sigma(_, _)
Sigma(f, S) ==
    IF S = {} THEN 0
    ELSE LET c == CHOOSE x \in S : TRUE IN f[c] + Sigma(f, S \ {c})

\* The state after a call of transformedColorComponents.
Transformed == pc = "transformed"

\* C1: with more columns than the vector has components (C > S), every output
\* row r is the sum over c < S of at(r,c) * input[c] plus the sum over
\* S <= c < C of at(r,c): a column beyond the vector counts with an implicit 1.
\* A 1x2 matrix [a, b] applied to the 1-element vector [x] gives a*x + b.
C1_AffineExtension ==
    (Transformed /\ matrix.ColumnCount > size) =>
        /\ \A r \in 0 .. matrix.RowCount - 1 :
             result[r] =
                 Sigma([c \in 0 .. size - 1 |-> at(matrix, r, c) * inputVector[c]],
                       0 .. size - 1)
                 + Sigma([c \in size .. matrix.ColumnCount - 1 |-> at(matrix, r, c)],
                         size .. matrix.ColumnCount - 1)
        /\ (matrix.ColumnCount = 2 /\ matrix.RowCount = 1 /\ size = 1) =>
             result[0] = matrix.m_matrix[1] * inputVector[0] + matrix.m_matrix[2]

\* C1 witness: a 1x2 matrix [a, b] with b # 0 applied to [x]; the result
\* a*x + b differs from a*x.
C1_Witness ==
    /\ Transformed
    /\ matrix.ColumnCount = 2 /\ matrix.RowCount = 1 /\ size = 1
    /\ matrix.m_matrix[2] # 0
    /\ inputVector[0] # 0
    /\ result[0] = matrix.m_matrix[1] * inputVector[0] + matrix.m_matrix[2]
    /\ result[0] # matrix.m_matrix[1] * inputVector[0]

\* C2: with more vector components than matrix rows (S > R), every component
\* at an index in [R, S) is the input component at that index.
C2_PassThrough ==
    (Transformed /\ size > matrix.RowCount) =>
        \A i \in matrix.RowCount .. size - 1 : result[i] = inputVector[i]

\* C2 witness: a matrix with a nonzero coefficient in every cell applied to a
\* vector whose last component, beyond the rows, is nonzero and differs from
\* the first.
C2_Witness ==
    /\ Transformed
    /\ size > matrix.RowCount
    /\ \A k \in DOMAIN matrix.m_matrix : matrix.m_matrix[k] # 0
    /\ inputVector[size - 1] # 0
    /\ inputVector[size - 1] # inputVector[0]
    /\ result[size - 1] = inputVector[size - 1]

\* C3: with no more columns than vector components (C <= S), every output
\* row r is the sum over c < C of at(r,c) * input[c], counted from 0; the
\* input components at indices in [C, S) do not influence rows [0, R).
C3_MatrixVectorProduct ==
    (Transformed /\ matrix.ColumnCount <= size) =>
        /\ \A r \in 0 .. matrix.RowCount - 1 :
             result[r] =
                 Sigma([c \in 0 .. matrix.ColumnCount - 1 |->
                            at(matrix, r, c) * inputVector[c]],
                       0 .. matrix.ColumnCount - 1)
        /\ \A alt \in ComponentsOfSize(size, InputValues) :
             (\A c \in 0 .. matrix.ColumnCount - 1 : alt[c] = inputVector[c]) =>
                 \A r \in 0 .. matrix.RowCount - 1 :
                     transformedColorComponents(matrix, alt, size)[r] = result[r]

\* C3 witness: a matrix with fewer columns than the vector has components,
\* a nonzero component beyond the columns, and a nonzero product.
C3_Witness ==
    /\ Transformed
    /\ matrix.ColumnCount < size
    /\ inputVector[matrix.ColumnCount] # 0
    /\ inputVector[matrix.ColumnCount] # inputVector[0]
    /\ result[0] # 0
    /\ result[0] = at(matrix, 0, 0) * inputVector[0]

(***************************************************************************)
(* applyMatricesToColorComponents                                          *)
(***************************************************************************)
MaxMatrices == 2
ChainCells == 2

ChainCoefficients == {1, 2}
ChainInputValues == {1, 2}

\* The two overloads: one matrix left (the base case), or a matrix and a
\* non-empty pack (transform by the first, recurse on the rest).
RECURSIVE ApplyPack(_, _, _)
ApplyPack(components, ms, n) ==
    IF Len(ms) = 1
    THEN transformedColorComponents(ms[1], components, n)
    ELSE ApplyPack(transformedColorComponents(Head(ms), components, n), Tail(ms), n)

\* Mutant: the pack is applied right to left.
RECURSIVE ApplyPackReversed(_, _, _)
ApplyPackReversed(components, ms, n) ==
    IF Len(ms) = 1
    THEN transformedColorComponents(ms[1], components, n)
    ELSE transformedColorComponents(Head(ms), ApplyPackReversed(components, Tail(ms), n), n)

applyMatricesToColorComponents(components, ms, n) == ApplyPack(components, ms, n)

ChainShapes(n) ==
    { s \in (1 .. MaxColumns) \X (1 .. MaxRows) :
        s[2] <= n /\ s[1] * s[2] <= ChainCells }

ChainMatricesFor(n) ==
    UNION { MatricesOfShape(s[1], s[2], ChainCoefficients) : s \in ChainShapes(n) }

Packs(n) == UNION { [1 .. k -> ChainMatricesFor(n)] : k \in 1 .. MaxMatrices }

(***************************************************************************)
(* Specification SpecApply: one call of applyMatricesToColorComponents.    *)
(***************************************************************************)
InitApply ==
    /\ pc = "init"
    /\ size \in 1 .. MaxSize
    /\ inputVector \in ComponentsOfSize(size, ChainInputValues)
    /\ matrix = None /\ matrices = << >> /\ other = None /\ amount = 0
    /\ result = None
    /\ NoAdder

Apply ==
    /\ pc = "init"
    /\ \E ms \in Packs(size) :
        /\ matrices' = ms
        /\ result' = applyMatricesToColorComponents(inputVector, ms, size)
    /\ pc' = "applied"
    /\ UNCHANGED <<size, inputVector, matrix, other, amount,
                   set, initialSet, adders, last>>

NextApply == Apply

SpecApply == InitApply /\ [][NextApply]_vars

\* Mk.transform(... M1.transform(v) ...): the first k matrices, innermost first.
RECURSIVE Nested(_, _, _, _)
Nested(v, ms, k, n) ==
    IF k = 0 THEN v
    ELSE transformedColorComponents(ms[k], Nested(v, ms, k - 1, n), n)

Applied == pc = "applied"

\* C4: applyMatricesToColorComponents(v, M1, ..., Mn), n >= 1, equals
\* Mn.transform(... M2.transform(M1.transform(v)) ...); for n = 1 it is
\* M1.transform(v) and for n = 2 it is M2.transform(M1.transform(v)); the
\* matrices may differ in dimensions.
C4_LeftToRight ==
    Applied =>
        /\ result = Nested(inputVector, matrices, Len(matrices), size)
        /\ Len(matrices) = 1 =>
             result = transformedColorComponents(matrices[1], inputVector, size)
        /\ Len(matrices) = 2 =>
             result = transformedColorComponents(matrices[2],
                          transformedColorComponents(matrices[1], inputVector, size),
                          size)

\* C4 witness: two matrices of different dimensions whose order matters.
C4_Witness ==
    /\ Applied
    /\ Len(matrices) = 2
    /\ matrices[1].ColumnCount # matrices[2].ColumnCount
    /\ result = transformedColorComponents(matrices[2],
                    transformedColorComponents(matrices[1], inputVector, size), size)
    /\ result # transformedColorComponents(matrices[1],
                    transformedColorComponents(matrices[2], inputVector, size), size)

(***************************************************************************)
(* operator== and operator!=                                               *)
(***************************************************************************)
\* The column loop of one row from column `column`: FALSE at the first
\* coefficient that differs (return false), TRUE when the loop runs out.
RECURSIVE ColumnsEqual(_, _, _, _)
ColumnsEqual(a, b, row, column) ==
    IF column < a.ColumnCount
    THEN IF at(a, row, column) # at(b, row, column)
         THEN FALSE
         ELSE ColumnsEqual(a, b, row, column + 1)
    ELSE TRUE

\* The row loop from row `row`, each row compared from column firstColumn.
RECURSIVE RowsEqual(_, _, _, _)
RowsEqual(a, b, row, firstColumn) ==
    IF row < a.RowCount
    THEN IF ~ColumnsEqual(a, b, row, firstColumn)
         THEN FALSE
         ELSE RowsEqual(a, b, row + 1, firstColumn)
    ELSE TRUE

\* Mutant: the column loop starts at 1.
OperatorEqFromSecondColumn(a, b) == RowsEqual(a, b, 0, 1)

OperatorEq(a, b) == RowsEqual(a, b, 0, 0)

OperatorNe(a, b) == ~OperatorEq(a, b)

EqualityCoefficients == 0 .. MaxCoefficient

EqualityShapes ==
    { s \in (1 .. MaxColumns) \X (1 .. MaxRows) : s[1] * s[2] <= MaxCells }

(***************************************************************************)
(* Specification SpecEquality: one comparison of two matrices of the same  *)
(* dimensions.                                                             *)
(***************************************************************************)
InitEquality ==
    /\ pc = "init"
    /\ \E s \in EqualityShapes :
        /\ matrix \in MatricesOfShape(s[1], s[2], EqualityCoefficients)
        /\ other \in MatricesOfShape(s[1], s[2], EqualityCoefficients)
    /\ size = 0 /\ inputVector = None /\ matrices = << >> /\ amount = 0
    /\ result = None
    /\ NoAdder

Equals ==
    /\ pc = "init"
    /\ result' = OperatorEq(matrix, other)
    /\ pc' = "eq"
    /\ UNCHANGED <<size, inputVector, matrix, matrices, other, amount,
                   set, initialSet, adders, last>>

NotEquals ==
    /\ pc = "init"
    /\ result' = OperatorNe(matrix, other)
    /\ pc' = "ne"
    /\ UNCHANGED <<size, inputVector, matrix, matrices, other, amount,
                   set, initialSet, adders, last>>

NextEquality == Equals \/ NotEquals

SpecEquality == InitEquality /\ [][NextEquality]_vars

\* Every coefficient of a equals the coefficient of b at the same place.
SameCoefficients(a, b) ==
    \A r \in 0 .. a.RowCount - 1 : \A c \in 0 .. a.ColumnCount - 1 :
        at(a, r, c) = at(b, r, c)

\* C8: a == b holds exactly when at(r,c) of a equals at(r,c) of b for every
\* row and column; a != b is the negation of a == b; two matrices built from
\* the same coefficient list are equal, and changing any one coefficient
\* makes them unequal.
C8_Equality ==
    /\ pc = "eq" =>
        /\ result <=> SameCoefficients(matrix, other)
        /\ (matrix.m_matrix = other.m_matrix) => result
        /\ \A k \in DOMAIN matrix.m_matrix :
             ((\A j \in DOMAIN matrix.m_matrix :
                  (matrix.m_matrix[j] = other.m_matrix[j]) <=> (j # k))
              => ~result)
    /\ pc = "ne" =>
        /\ result <=> ~OperatorEq(matrix, other)
        /\ result <=> ~SameCoefficients(matrix, other)

\* C8 witness: two matrices that differ in exactly one coefficient, the
\* first of a row, compared unequal.
C8_Witness ==
    /\ pc = "eq"
    /\ result = FALSE
    /\ matrix.ColumnCount > 1
    /\ \A j \in DOMAIN matrix.m_matrix :
         (matrix.m_matrix[j] = other.m_matrix[j]) <=> (j # 1)

(***************************************************************************)
(* The filter matrix factories, in fixed point.                            *)
(***************************************************************************)
CoefficientUnit == 10000
ScalarUnit == 4
MaxAmount == 16

\* 1.0f as a scalar.
One == ScalarUnit

Amounts == -MaxAmount .. MaxAmount
Angles == {0, 90, 180, 270}

\* base + factor * scalar, the literals base and factor in 1/CoefficientUnit.
Blend(base, factor, scalar) == base * ScalarUnit + factor * scalar

\* base + cosHue * cosFactor + sinHue * sinFactor.
Blend2(base, cosFactor, cosHue, sinFactor, sinHue) ==
    base * ScalarUnit + cosFactor * cosHue + sinFactor * sinHue

\* std::clamp(v, lo, hi)
clamp(v, lo, hi) == IF v < lo THEN lo ELSE IF hi < v THEN hi ELSE v

\* Mutant: 1.0f - amount is not clamped.
oneMinusAmountUnclamped(a) == One - a

\* float oneMinusAmount = std::clamp(1.0f - amount, 0.0f, 1.0f);
oneMinusAmount(a) == clamp(One - a, 0, One)

\* The grayscale template filled with the blending scalar t.
GrayscaleTemplate(t) ==
    ColorMatrix(3, 3, <<
        Blend(2126, 7874, t), Blend(7152, -7152, t), Blend(722, -722, t),
        Blend(2126, -2126, t), Blend(7152, 2848, t), Blend(722, -722, t),
        Blend(2126, -2126, t), Blend(7152, -7152, t), Blend(722, 9278, t) >>)

\* Mutant: the template is blended by the clamped amount, not by 1 - amount.
grayscaleBlendedByAmount(a) == GrayscaleTemplate(clamp(a, 0, One))

grayscaleColorMatrix(a) == GrayscaleTemplate(oneMinusAmount(a))

sepiaColorMatrix(a) ==
    LET t == oneMinusAmount(a)
    IN  ColorMatrix(3, 3, <<
            Blend(3930, 6070, t), Blend(7690, -7690, t), Blend(1890, -1890, t),
            Blend(3490, -3490, t), Blend(6860, 3140, t), Blend(1680, -1680, t),
            Blend(2720, -2720, t), Blend(5340, -5340, t), Blend(1310, 8690, t) >>)

\* Mutant: the grayscale luma literals are used in place of 0.213/0.715/0.072.
saturationWithGrayscaleLiterals(a) == GrayscaleTemplate(a)

saturationColorMatrix(a) ==
    ColorMatrix(3, 3, <<
        Blend(2130, 7870, a), Blend(7150, -7150, a), Blend(720, -720, a),
        Blend(2130, -2130, a), Blend(7150, 2850, a), Blend(720, -720, a),
        Blend(2130, -2130, a), Blend(7150, -7150, a), Blend(720, 9280, a) >>)

\* cos(deg2rad(angleInDegrees)) and sin(deg2rad(angleInDegrees)) as scalars,
\* for the multiples of 90 degrees.
CosHue(angleInDegrees) ==
    CASE angleInDegrees = 0 -> One
      [] angleInDegrees = 90 -> 0
      [] angleInDegrees = 180 -> -One
      [] angleInDegrees = 270 -> 0

SinHue(angleInDegrees) ==
    CASE angleInDegrees = 0 -> 0
      [] angleInDegrees = 90 -> One
      [] angleInDegrees = 180 -> 0
      [] angleInDegrees = 270 -> -One

HueTemplate(cosHue, sinHue) ==
    ColorMatrix(3, 3, <<
        Blend2(2130, 7870, cosHue, -2130, sinHue),
        Blend2(7150, -7150, cosHue, -7150, sinHue),
        Blend2(720, -720, cosHue, 9280, sinHue),
        Blend2(2130, -2130, cosHue, 1430, sinHue),
        Blend2(7150, 2850, cosHue, 1400, sinHue),
        Blend2(720, -720, cosHue, -2830, sinHue),
        Blend2(2130, -2130, cosHue, -7870, sinHue),
        Blend2(7150, -7150, cosHue, 7150, sinHue),
        Blend2(720, 9280, cosHue, 720, sinHue) >>)

\* Mutant: cosHue and sinHue are exchanged.
hueRotateCosSinExchanged(angleInDegrees) ==
    HueTemplate(SinHue(angleInDegrees), CosHue(angleInDegrees))

hueRotateColorMatrix(angleInDegrees) ==
    HueTemplate(CosHue(angleInDegrees), SinHue(angleInDegrees))

(***************************************************************************)
(* Specification SpecFilter: one call of a filter matrix factory.          *)
(***************************************************************************)
InitFilter ==
    /\ pc = "init"
    /\ size = 0 /\ inputVector = None /\ matrix = None /\ matrices = << >>
    /\ other = None /\ amount = 0 /\ result = None
    /\ NoAdder

Grayscale ==
    /\ pc = "init"
    /\ \E a \in Amounts :
        /\ amount' = a
        /\ result' = grayscaleColorMatrix(a)
    /\ pc' = "grayscale"
    /\ UNCHANGED <<size, inputVector, matrix, matrices, other,
                   set, initialSet, adders, last>>

Sepia ==
    /\ pc = "init"
    /\ \E a \in Amounts :
        /\ amount' = a
        /\ result' = sepiaColorMatrix(a)
    /\ pc' = "sepia"
    /\ UNCHANGED <<size, inputVector, matrix, matrices, other,
                   set, initialSet, adders, last>>

Saturation ==
    /\ pc = "init"
    /\ \E a \in Amounts :
        /\ amount' = a
        /\ result' = saturationColorMatrix(a)
    /\ pc' = "saturation"
    /\ UNCHANGED <<size, inputVector, matrix, matrices, other,
                   set, initialSet, adders, last>>

\* The argument is angleInDegrees, in whole degrees.
HueRotate ==
    /\ pc = "init"
    /\ \E angleInDegrees \in Angles :
        /\ amount' = angleInDegrees
        /\ result' = hueRotateColorMatrix(angleInDegrees)
    /\ pc' = "hueRotate"
    /\ UNCHANGED <<size, inputVector, matrix, matrices, other,
                   set, initialSet, adders, last>>

NextFilter == Grayscale \/ Sepia \/ Saturation \/ HueRotate

SpecFilter == InitFilter /\ [][NextFilter]_vars

\* A 3x3 matrix given by its coefficient literals (in 1/CoefficientUnit).
Literal3x3(coefficients) ==
    ColorMatrix(3, 3, [k \in 1 .. 9 |-> coefficients[k] * ScalarUnit])

Identity3x3 ==
    Literal3x3(<< CoefficientUnit, 0, 0,
                  0, CoefficientUnit, 0,
                  0, 0, CoefficientUnit >>)

\* Each row {0.2126, 0.7152, 0.0722}.
LumaRows3x3 == Literal3x3(<< 2126, 7152, 722, 2126, 7152, 722, 2126, 7152, 722 >>)

\* Each row {0.213, 0.715, 0.072}.
SaturateZeroRows3x3 == Literal3x3(<< 2130, 7150, 720, 2130, 7150, 720, 2130, 7150, 720 >>)

\* C5 as stated: grayscale(0.0) returns the matrix whose rows are each
\* {0.2126, 0.7152, 0.0722}, and grayscale(1.0) returns the identity.
C5_AsStated ==
    pc = "grayscale" =>
        /\ amount = 0 => result = LumaRows3x3
        /\ amount = One => result = Identity3x3

\* C5 amended: grayscale(1.0) returns the matrix whose rows are each
\* {0.2126, 0.7152, 0.0722}, and grayscale(0.0) returns the identity.
C5_GrayscaleBoundary ==
    pc = "grayscale" =>
        /\ amount = One => result = LumaRows3x3
        /\ amount = 0 => result = Identity3x3

\* C5 witness: grayscale(1.0) has returned the luma rows.
C5_Witness ==
    /\ pc = "grayscale" /\ amount = One
    /\ result = LumaRows3x3
    /\ result # Identity3x3

\* C6 as stated: saturation(1.0) returns the identity, and saturation(0.0)
\* returns a matrix equal (operator==) to the one grayscale(0.0) returns.
C6_AsStated ==
    pc = "saturation" =>
        /\ amount = One => result = Identity3x3
        /\ amount = 0 => OperatorEq(result, grayscaleColorMatrix(0))

\* C6 amended: saturation(1.0) returns the identity, and saturation(0.0)
\* returns the matrix whose rows are each {0.213, 0.715, 0.072}, which
\* operator== finds equal neither to grayscale(0.0) nor to grayscale(1.0).
C6_SaturationBoundary ==
    pc = "saturation" =>
        /\ amount = One => result = Identity3x3
        /\ amount = 0 =>
            /\ result = SaturateZeroRows3x3
            /\ ~OperatorEq(result, grayscaleColorMatrix(0))
            /\ ~OperatorEq(result, grayscaleColorMatrix(One))

\* C6 witness: saturation(0.0) has returned the rows {0.213, 0.715, 0.072}.
C6_Witness ==
    /\ pc = "saturation" /\ amount = 0
    /\ result = SaturateZeroRows3x3
    /\ OperatorNe(result, grayscaleColorMatrix(0))

\* C7: hueRotate(0.0) returns the 3x3 identity: every diagonal coefficient
\* is 1 and every other coefficient is 0.
C7_HueRotateZero ==
    (pc = "hueRotate" /\ amount = 0) =>
        /\ result = Identity3x3
        /\ \A r \in 0 .. 2 : \A c \in 0 .. 2 :
             at(result, r, c) = IF r = c THEN CoefficientUnit * ScalarUnit ELSE 0

\* C7 witness: hueRotate(0.0) has returned the identity.
C7_Witness ==
    /\ pc = "hueRotate" /\ amount = 0
    /\ CosHue(amount) = One /\ SinHue(amount) = 0
    /\ result = Identity3x3

Between(x, lo, hi) == (lo <= x /\ x <= hi) \/ (hi <= x /\ x <= lo)

\* The clamping contract of one factory f, applied to the argument a with
\* the returned matrix m.
ClampedBlend(f(_), a, m) ==
    /\ a >= One => m = f(One)
    /\ a <= 0 => m = f(0)
    /\ \A k \in 1 .. 9 :
         Between(m.m_matrix[k], f(0).m_matrix[k], f(One).m_matrix[k])

\* C9: grayscale(amount) and sepia(amount) depend on amount only through
\* clamp(1 - amount, 0, 1): for amount >= 1 the matrix is the one for
\* amount = 1, for amount <= 0 the one for amount = 0, and every coefficient
\* lies between its value at amount 0 and its value at amount 1.
C9_ClampedAmount ==
    /\ pc = "grayscale" => ClampedBlend(grayscaleColorMatrix, amount, result)
    /\ pc = "sepia" => ClampedBlend(sepiaColorMatrix, amount, result)

\* C9 witness: sepia of an amount above 1 has returned the matrix of amount 1,
\* which is not the matrix of amount 0.
C9_Witness ==
    /\ pc = "sepia" /\ amount > One
    /\ result = sepiaColorMatrix(One)
    /\ result # sepiaColorMatrix(0)

(***************************************************************************)
(* ScopedSetAdder<T> over one HashSet<T>.                                  *)
(***************************************************************************)
MaxItems == 3
MaxAdders == 3

Items == 1 .. MaxItems

\* HashSet<T>::add: the set with the item, and whether the item is new.
HashSetAdd(s, item) == [set |-> s \cup {item}, isNewEntry |-> item \notin s]

\* HashSet<T>::remove: the set without the item, and whether it was there.
HashSetRemove(s, item) == [set |-> s \ {item}, success |-> item \in s]

\* ScopedSetAdder(HashSet<T>& set, T&& item)
Constructor(s, item) ==
    LET added == HashSetAdd(s, item)
    IN  [set |-> added.set,
         adder |-> [m_item |-> item, m_isNewEntry |-> added.isNewEntry]]

\* Mutant: the destructor removes the item whether or not the adder inserted it.
DestructorUnconditional(s, adder) ==
    LET removed == HashSetRemove(s, adder.m_item)
    IN  [set |-> removed.set, success |-> removed.success]

\* ~ScopedSetAdder(): the set after it, and the value of `success` (TRUE
\* when remove is not called).
Destructor(s, adder) ==
    IF ~adder.m_isNewEntry
    THEN [set |-> s, success |-> TRUE]
    ELSE LET removed == HashSetRemove(s, adder.m_item)
         IN  [set |-> removed.set, success |-> removed.success]

(***************************************************************************)
(* Specification SpecAdder: adders constructed and destroyed in nested     *)
(* order (the last constructed is the first destroyed).                    *)
(***************************************************************************)
InitAdder ==
    /\ pc = "init"
    /\ size = 0 /\ inputVector = None /\ matrix = None /\ matrices = << >>
    /\ other = None /\ amount = 0 /\ result = None
    /\ initialSet \in SUBSET Items
    /\ set = initialSet
    /\ adders = << >>
    /\ last = None

Construct ==
    /\ Len(adders) < MaxAdders
    /\ \E item \in Items :
        LET made == Constructor(set, item)
        IN  /\ set' = made.set
            /\ adders' = Append(adders, made.adder)
            /\ last' = [adder |-> made.adder, before |-> set, success |-> TRUE]
    /\ pc' = "constructed"
    /\ UNCHANGED <<size, inputVector, matrix, matrices, other, amount, result,
                   initialSet>>

Destroy ==
    /\ adders # << >>
    /\ LET adder == adders[Len(adders)]
           gone == Destructor(set, adder)
       IN  /\ set' = gone.set
           /\ adders' = SubSeq(adders, 1, Len(adders) - 1)
           /\ last' = [adder |-> adder, before |-> set, success |-> gone.success]
    /\ pc' = "destroyed"
    /\ UNCHANGED <<size, inputVector, matrix, matrices, other, amount, result,
                   initialSet>>

NextAdder == Construct \/ Destroy

SpecAdder == InitAdder /\ [][NextAdder]_vars

LiveItems == { adders[i].m_item : i \in DOMAIN adders }

\* C10: constructing an adder for x leaves x in the set, with isNewEntry true
\* exactly when x was not in the set before; destroying it removes x exactly
\* when isNewEntry is true and otherwise leaves the set unchanged.  In nested
\* order the set is always its initial contents plus the items of the live
\* adders, an item is never removed by an adder that did not insert it, and
\* with no adder left the set is its initial contents.
C10_ScopedSetAdder ==
    /\ pc = "constructed" =>
        /\ last.adder.m_item \in set
        /\ set = last.before \cup {last.adder.m_item}
        /\ last.adder.m_isNewEntry <=> (last.adder.m_item \notin last.before)
    /\ pc = "destroyed" =>
        /\ last.adder.m_isNewEntry =>
             (set = last.before \ {last.adder.m_item} /\ last.adder.m_item \notin set)
        /\ ~last.adder.m_isNewEntry =>
             (set = last.before /\ last.adder.m_item \in set)
        /\ last.success
    /\ set = initialSet \cup LiveItems
    /\ adders = << >> => set = initialSet

\* C10 witness: an adder that found its item already inserted by a live outer
\* adder has been destroyed, and the item is still in the set.
C10_Witness ==
    /\ pc = "destroyed"
    /\ ~last.adder.m_isNewEntry
    /\ last.adder.m_item \notin initialSet
    /\ last.adder.m_item \in set
    /\ adders # << >>
    /\ set # initialSet

=============================================================================
